---------------------------- MODULE Spec2Model ----------------------------
(***************************************************************************)
(* A model of the CarPi audio ducking engine (src/audio_ducker.py):        *)
(* the AudioDucker object, its JACK process callback, its monitor loop,    *)
(* its lifecycle, and the Flask control plane that reads and writes it.    *)
(*                                                                         *)
(* Arithmetic.  The program computes in floating point.  Here a linear     *)
(* amplitude is an integer count of thousandths (ONE = 1000 stands for     *)
(* 1.0), a level in dB is a whole number of dB, a time is a whole number   *)
(* of milliseconds.  Products are rounded to the nearest thousandth,       *)
(* quotients are truncated; 10^(dB/20) is read from a table in millionths. *)
(***************************************************************************)
EXTENDS Integers, Sequences, FiniteSets, TLC

\* ------------------------------------------------------------------------
\* Bounds of the model
\* ------------------------------------------------------------------------
MaxBlocks == 2        \* process callbacks per behaviour
MaxUpdates == 2       \* control-plane settings operations per behaviour
MaxRun == 6           \* process callbacks per behaviour of the scenarios

\* ------------------------------------------------------------------------
\* Numbers
\* ------------------------------------------------------------------------
ONE == 1000           \* the amplitude 1.0 ("1.0 = no duck", full scale)

FLOOR_DB == -100      \* linear_to_db's value for linear <= 0

Abs(x) == IF x < 0 THEN -x ELSE x
Max2(a, b) == IF a >= b THEN a ELSE b
Min2(a, b) == IF a <= b THEN a ELSE b

\* a * b of two amplitudes, rounded to the nearest thousandth (sign-symmetric)
Mul(a, b) ==
  LET p == a * b
  IN  IF p >= 0 THEN (p + ONE \div 2) \div ONE
                ELSE -(((-p) + ONE \div 2) \div ONE)

\* a / b of two amplitudes (b > 0), truncated toward zero
Div(a, b) ==
  IF a >= 0 THEN (a * ONE) \div b ELSE -(((-a) * ONE) \div b)

\* 10^(k/20) in millionths, for k = -100 .. 12 dB (entry k + 101)
Pow10Micro ==
  <<   10, 11, 13, 14, 16, 18, 20, 22,
       25, 28, 32, 35, 40, 45, 50, 56,
       63, 71, 79, 89, 100, 112, 126, 141,
       158, 178, 200, 224, 251, 282, 316, 355,
       398, 447, 501, 562, 631, 708, 794, 891,
       1000, 1122, 1259, 1413, 1585, 1778, 1995, 2239,
       2512, 2818, 3162, 3548, 3981, 4467, 5012, 5623,
       6310, 7079, 7943, 8913, 10000, 11220, 12589, 14125,
       15849, 17783, 19953, 22387, 25119, 28184, 31623, 35481,
       39811, 44668, 50119, 56234, 63096, 70795, 79433, 89125,
       100000, 112202, 125893, 141254, 158489, 177828, 199526, 223872,
       251189, 281838, 316228, 354813, 398107, 446684, 501187, 562341,
       630957, 707946, 794328, 891251, 1000000, 1122018, 1258925, 1412538,
       1584893, 1778279, 1995262, 2238721, 2511886, 2818383, 3162278, 3548134,
       3981072 >>

\* db_to_linear(db) = 10 ** (db / 20.0), to the nearest thousandth
db_to_linear(db) == (Pow10Micro[db - FLOOR_DB + 1] + 500) \div 1000

\* linear_to_db(linear) = -100.0 if linear <= 0 else 20 * log10(linear),
\* rounded up to a whole dB: for a whole-dB threshold T,
\* linear_to_db(x) > T exactly when 20 * log10(x) > T.
RECURSIVE CeilDb(_, _, _)
CeilDb(micro, lo, hi) ==     \* the least k in lo..hi with micro <= 10^(k/20)
  IF lo >= hi THEN lo
  ELSE LET mid == (lo + hi) \div 2
       IN  IF micro <= Pow10Micro[mid - FLOOR_DB + 1]
             THEN CeilDb(micro, lo, mid)
             ELSE CeilDb(micro, mid + 1, hi)

linear_to_db(linear) ==
  IF linear <= 0 THEN FLOOR_DB
  ELSE CeilDb(linear * 1000, FLOOR_DB, Len(Pow10Micro) + FLOOR_DB - 1)

RECURSIVE SumSq(_)
SumSq(s) == IF s = << >> THEN 0 ELSE Head(s) * Head(s) + SumSq(Tail(s))

\* the integer square root, by bisection on [lo, hi)
RECURSIVE ISqrtBetween(_, _, _)
ISqrtBetween(v, lo, hi) ==
  IF hi - lo <= 1 THEN lo
  ELSE LET mid == (lo + hi) \div 2
       IN  IF mid * mid <= v THEN ISqrtBetween(v, mid, hi)
                             ELSE ISqrtBetween(v, lo, mid)

ISqrt(v) == ISqrtBetween(v, 0, 4 * ONE + 1)

\* calculate_rms(audio_data) = sqrt(mean(audio_data ** 2)), 0.0 when empty
calculate_rms(audio_data) ==
  IF Len(audio_data) = 0 THEN 0
  ELSE ISqrt(SumSq(audio_data) \div Len(audio_data))

RECURSIVE PeakAbs(_)
PeakAbs(s) == IF s = << >> THEN 0 ELSE Max2(Abs(Head(s)), PeakAbs(Tail(s)))

Scale(s, g) == [i \in 1..Len(s) |-> Mul(s[i], g)]
AddSeq(a, b) == [i \in 1..Len(a) |-> a[i] + b[i]]
DivSeq(s, m) == [i \in 1..Len(s) |-> Div(s[i], m)]

\* ------------------------------------------------------------------------
\* Settings: a dict from keys to JSON values.  A value carries its type.
\* ------------------------------------------------------------------------
Num(n) == [tag |-> "num", val |-> n]
Str(x) == [tag |-> "str", val |-> x]
Bool(b) == [tag |-> "bool", val |-> b]
IsNum(v) == v.tag = "num"

DictUpdate_known_keys_only(d, other) ==
  [k \in DOMAIN d |-> IF k \in DOMAIN other THEN other[k] ELSE d[k]]

\* dict.update(other): shallow key-wise overwrite, no key removed
DictUpdate(d, other) ==
  [k \in (DOMAIN d) \cup (DOMAIN other) |->
     IF k \in DOMAIN other THEN other[k] ELSE d[k]]

\* the `defaults` dict of load_settings
defaults ==
  [ primary_threshold_db |-> Num(-40),
    duck_amount_db       |-> Num(-20),
    attack_time_ms       |-> Num(50),
    release_time_ms      |-> Num(500),
    primary_source       |-> Str("carplay"),
    secondary_source     |-> Str("line_in"),
    show_vu_meters       |-> Bool(TRUE),
    output_device        |-> Str("system"),
    primary_gain_db      |-> Num(0),
    secondary_gain_db    |-> Num(0),
    output_gain_db       |-> Num(0),
    hold_time_ms         |-> Num(100),
    ducking_mode         |-> Str("standard"),
    enable_limiter       |-> Bool(TRUE),
    limiter_threshold_db |-> Num(-1),
    enable_compressor    |-> Bool(FALSE),
    compressor_ratio     |-> Num(4) ]

\* The persisted file ~/audio_ducker_config.json: absent, a JSON document
\* (an object or an array), or text that json.load rejects.
NoDoc == [k \in {} |-> Num(0)]
FileMissing == [kind |-> "missing", doc |-> NoDoc]
FileCorrupt == [kind |-> "corrupt", doc |-> NoDoc]

\* json.dump and json.load on the values a settings dict holds: a number,
\* a string or a boolean is written as a JSON literal and read back from it
Encode(v) ==
  CASE v.tag = "num"  -> [json |-> "number", text |-> v.val]
    [] v.tag = "str"  -> [json |-> "string", text |-> v.val]
    [] v.tag = "bool" -> [json |-> IF v.val THEN "true" ELSE "false", text |-> ""]

Decode(t) ==
  CASE t.json = "number" -> Num(t.text)
    [] t.json = "string" -> Str(t.text)
    [] t.json = "true"   -> Bool(TRUE)
    [] t.json = "false"  -> Bool(FALSE)

json_dump(d) == [k \in DOMAIN d |-> Encode(d[k])]
json_load(doc) == [k \in DOMAIN doc |-> Decode(doc[k])]

\* A file holding the JSON object that json.dump writes for mapping d
FileJson(d) == [kind |-> "json", doc |-> json_dump(d)]

\* The elements of a JSON array as dict.update takes them: a two-element
\* array is a (key, value) pair, anything else is not
Pair(k, v) == [pair |-> TRUE, key |-> k, val |-> v]
NotAPair == [pair |-> FALSE, key |-> "", val |-> Num(0)]

\* A file holding a JSON array
FileList(items) ==
  [kind |-> "list",
   doc |-> [i \in DOMAIN items |-> [items[i] EXCEPT !.val = Encode(@)]]]

\* dict.update(iterable): the pairs are stored one after the other, and
\* the first element that is not a pair raises, what was stored staying
RECURSIVE UpdateFromSeq(_, _)
UpdateFromSeq(d, items) ==
  IF items = << >> THEN [dict |-> d, raised |-> FALSE]
  ELSE IF ~Head(items).pair THEN [dict |-> d, raised |-> TRUE]
  ELSE UpdateFromSeq(DictUpdate(d, Head(items).key :> Head(items).val),
                     Tail(items))

\* load_settings(): defaults, updated with what json.load returns when the
\* file exists and parses; an exception of the update is swallowed like one
\* of the parse
load_settings(file) ==
  CASE file.kind = "json" -> DictUpdate(defaults, json_load(file.doc))
    [] file.kind = "list" ->
         UpdateFromSeq(defaults,
                       [i \in DOMAIN file.doc |->
                          [file.doc[i] EXCEPT !.val = Decode(@)]]).dict
    [] OTHER -> defaults

\* save_settings(): open(config_file, "w") truncates, json.dump writes.
\* io is what the file system does: "ok", "open_fails" (the open raises and
\* nothing is touched) or "write_fails" (the dump raises after the
\* truncation).  The exception is caught and printed in every case.
save_settings(file, settings, io) ==
  CASE io = "ok"          -> FileJson(settings)
    [] io = "open_fails"  -> file
    [] io = "write_fails" -> FileCorrupt

IoOutcomes == {"ok", "open_fails", "write_fails"}
HealthyDisk == {"ok"}

\* ------------------------------------------------------------------------
\* AudioDucker.process(frames): the JACK process callback
\* ------------------------------------------------------------------------
\* (time_ms / 1000.0) * samplerate, in thousandths of a sample
TimeToSamples(time_ms, samplerate) == time_ms * samplerate

\* The smoothing of duck_amount toward target_duck over one block:
\*   attack:  max(target, duck - (duck - target) / max(attack_samples, 1) * frames)
\*   release: min(target, duck + (target - duck) / max(release_samples, 1) * frames)
Smooth_times_swapped(duck, target, attack_samples, release_samples, frames) ==
  IF target < duck
    THEN Max2(target,
              duck - ((duck - target) * frames * 1000)
                       \div Max2(release_samples, 1000))
    ELSE Min2(target,
              duck + ((target - duck) * frames * 1000)
                       \div Max2(attack_samples, 1000))

Smooth_unclamped(duck, target, attack_samples, release_samples, frames) ==
  IF target < duck
    THEN duck - ((duck - target) * frames * 1000) \div Max2(attack_samples, 1000)
    ELSE duck + ((target - duck) * frames * 1000) \div Max2(release_samples, 1000)

Smooth_ignores_frames(duck, target, attack_samples, release_samples, frames) ==
  IF target < duck
    THEN Max2(target,
              duck - ((duck - target) * 1000) \div Max2(attack_samples, 1000))
    ELSE Min2(target,
              duck + ((target - duck) * 1000) \div Max2(release_samples, 1000))

Smooth(duck, target, attack_samples, release_samples, frames) ==
  IF target < duck
    THEN Max2(target,
              duck - ((duck - target) * frames * 1000)
                       \div Max2(attack_samples, 1000))
    ELSE Min2(target,
              duck + ((target - duck) * frames * 1000)
                       \div Max2(release_samples, 1000))

PrimaryActive_at_threshold(primary_db, threshold) == primary_db >= threshold

\* if primary_db > self.settings["primary_threshold_db"]
PrimaryActive(primary_db, threshold) == primary_db > threshold

\* The limiter: max_val = max(|output_l|.max(), |output_r|.max());
\* clipping = max_val > 1.0; if clipping, both channels are divided by max_val
LimiterEngages_at_full_scale(max_val) == max_val >= ONE

LimiterEngages(max_val) == max_val > ONE

Limiter_flag_only(output_l, output_r) ==
  LET max_val == Max2(PeakAbs(output_l), PeakAbs(output_r))
  IN  [ max_val  |-> max_val,
        clipping |-> LimiterEngages(max_val),
        output_l |-> output_l,
        output_r |-> output_r ]

Limiter(output_l, output_r) ==
  LET max_val  == Max2(PeakAbs(output_l), PeakAbs(output_r))
      clipping == LimiterEngages(max_val)
  IN  [ max_val  |-> max_val,
        clipping |-> clipping,
        output_l |-> IF clipping THEN DivSeq(output_l, max_val) ELSE output_l,
        output_r |-> IF clipping THEN DivSeq(output_r, max_val) ELSE output_r ]

\* The callback's frame before it starts: its locals, and where it stands.
\* pc names the source line the callback executes next; "idle" is between
\* callbacks.  fault is the line that raised in this block (0: none), and
\* outcome is how the last callback ended as seen by its caller:
\* "returned" (also after the except clause) or "raised".
IdleFrame ==
  [ pc |-> "idle", frames |-> 0, fault |-> 0, outcome |-> "none",
    primary_l |-> << >>, primary_r |-> << >>,
    secondary_l |-> << >>, secondary_r |-> << >>,
    primary_rms |-> 0, secondary_rms |-> 0,
    attack_samples |-> 0, release_samples |-> 0,
    output_l |-> << >>, output_r |-> << >>,
    clipping |-> FALSE, output_rms |-> 0, max_val |-> 0,
    \* bookkeeping, not program state: the settings values this callback
    \* has read, duck_amount as the smoothing step found it, and the
    \* output block as the limiter found it
    g_used |-> NoDoc, g_smoothed |-> FALSE, g_duck_before |-> 0,
    g_mix_l |-> << >>, g_mix_r |-> << >> ]

\* A read of settings[key], noted in the frame
Used(w, key) ==
  [w EXCEPT !.f.g_used = (key :> w.self.settings[key]) @@ @]

\* A step that raises: control passes to the except clause
Raise(w, line) == [w EXCEPT !.f.pc = "except", !.f.fault = line]

ExceptClause_reraises(w) == [w EXCEPT !.f.pc = "idle", !.f.outcome = "raised"]

\* except Exception as e: print(...); the callback returns normally
ExceptClause(w) == [w EXCEPT !.f.pc = "idle", !.f.outcome = "returned"]

\* One step of the callback on the world w = [self, f, port]: self is the
\* AudioDucker object, f the callback's frame, port the two output port
\* buffers.  Each step makes at most one access to a field of self that
\* another thread reads or writes.
ProcessStep(w, samplerate) ==
  LET self == w.self
      f == w.f
      s == self.settings
  IN
  CASE f.pc = "L267" ->      \* primary_gain = db_to_linear(settings[...])
         IF ~IsNum(s["primary_gain_db"]) THEN Raise(Used(w, "primary_gain_db"), 267)
         ELSE [Used(w, "primary_gain_db") EXCEPT !.f.pc = "L268",
                 !.f.primary_l = Scale(f.primary_l, db_to_linear(s["primary_gain_db"].val)),
                 !.f.primary_r = Scale(f.primary_r, db_to_linear(s["primary_gain_db"].val))]
    [] f.pc = "L268" ->      \* secondary_gain; gains applied; RMS measured
         IF ~IsNum(s["secondary_gain_db"]) THEN Raise(Used(w, "secondary_gain_db"), 268)
         ELSE LET g  == db_to_linear(s["secondary_gain_db"].val)
                  sl == Scale(f.secondary_l, g)
                  sr == Scale(f.secondary_r, g)
              IN [Used(w, "secondary_gain_db") EXCEPT !.f.pc = "L285",
                   !.f.secondary_l = sl,
                   !.f.secondary_r = sr,
                   !.f.primary_rms = Max2(calculate_rms(f.primary_l),
                                          calculate_rms(f.primary_r)),
                   !.f.secondary_rms = Max2(calculate_rms(sl), calculate_rms(sr))]
    [] f.pc = "L285" ->      \* self.primary_level = primary_rms
         [w EXCEPT !.f.pc = "L286", !.self.primary_level = f.primary_rms]
    [] f.pc = "L286" ->      \* self.secondary_level = secondary_rms
         [w EXCEPT !.f.pc = "L290", !.self.secondary_level = f.secondary_rms]
    [] f.pc = "L290" ->      \* if primary_db > settings["primary_threshold_db"]
         IF ~IsNum(s["primary_threshold_db"]) THEN Raise(Used(w, "primary_threshold_db"), 290)
         ELSE IF PrimaryActive(linear_to_db(f.primary_rms),
                               s["primary_threshold_db"].val)
              THEN [Used(w, "primary_threshold_db") EXCEPT !.f.pc = "L292"]
              ELSE [Used(w, "primary_threshold_db") EXCEPT !.f.pc = "L295"]
    [] f.pc = "L292" ->      \* self.target_duck = db_to_linear(settings["duck_amount_db"])
         IF ~IsNum(s["duck_amount_db"]) THEN Raise(Used(w, "duck_amount_db"), 292)
         ELSE [Used(w, "duck_amount_db") EXCEPT !.f.pc = "L299",
                 !.self.target_duck = db_to_linear(s["duck_amount_db"].val)]
    [] f.pc = "L295" ->      \* self.target_duck = 1.0
         [w EXCEPT !.f.pc = "L299", !.self.target_duck = ONE]
    [] f.pc = "L299" ->      \* attack_samples
         IF ~IsNum(s["attack_time_ms"]) THEN Raise(Used(w, "attack_time_ms"), 299)
         ELSE [Used(w, "attack_time_ms") EXCEPT !.f.pc = "L300",
                 !.f.attack_samples = TimeToSamples(s["attack_time_ms"].val, samplerate)]
    [] f.pc = "L300" ->      \* release_samples
         IF ~IsNum(s["release_time_ms"]) THEN Raise(Used(w, "release_time_ms"), 300)
         ELSE [Used(w, "release_time_ms") EXCEPT !.f.pc = "L302",
                 !.f.release_samples = TimeToSamples(s["release_time_ms"].val, samplerate)]
    [] f.pc = "L302" ->      \* the smoothing step writes self.duck_amount
         [w EXCEPT !.f.pc = "L318",
            !.f.g_smoothed = TRUE,
            !.f.g_duck_before = self.duck_amount,
            !.self.duck_amount = Smooth(self.duck_amount, self.target_duck,
                                        f.attack_samples, f.release_samples, f.frames)]
    [] f.pc = "L318" ->      \* duck the secondary, mix with the primary
         [w EXCEPT !.f.pc = "L326",
            !.f.output_l = AddSeq(f.primary_l, Scale(f.secondary_l, self.duck_amount)),
            !.f.output_r = AddSeq(f.primary_r, Scale(f.secondary_r, self.duck_amount))]
    [] f.pc = "L326" ->      \* output gain, limiter, output RMS
         LET v == IF "output_gain_db" \in DOMAIN s THEN s["output_gain_db"] ELSE Num(0)
         IN  IF ~IsNum(v) THEN Raise(Used(w, "output_gain_db"), 326)
             ELSE LET lim == Limiter(Scale(f.output_l, db_to_linear(v.val)),
                                     Scale(f.output_r, db_to_linear(v.val)))
                  IN [Used(w, "output_gain_db") EXCEPT !.f.pc = "L342",
                       !.f.max_val = lim.max_val,
                       !.f.g_mix_l = Scale(f.output_l, db_to_linear(v.val)),
                       !.f.g_mix_r = Scale(f.output_r, db_to_linear(v.val)),
                       !.f.output_l = lim.output_l,
                       !.f.output_r = lim.output_r,
                       !.f.clipping = lim.clipping,
                       !.f.output_rms = Max2(calculate_rms(lim.output_l),
                                             calculate_rms(lim.output_r))]
    [] f.pc = "L342" ->      \* self.output_level = output_rms
         [w EXCEPT !.f.pc = "L343", !.self.output_level = f.output_rms]
    [] f.pc = "L343" ->      \* self.clipping = clipping
         [w EXCEPT !.f.pc = "L346", !.self.clipping = f.clipping]
    [] f.pc = "L346" ->      \* self.output_l.get_array()[:] = output_l
         [w EXCEPT !.f.pc = "L347", !.port.output_L = f.output_l]
    [] f.pc = "L347" ->      \* self.output_r.get_array()[:] = output_r; return
         [w EXCEPT !.f.pc = "idle", !.f.outcome = "returned",
                   !.port.output_R = f.output_r]
    [] f.pc = "except" -> ExceptClause(w)

\* The callback is entered: the four input arrays are copied (lines 261-264)
ProcessEnter(w, inp) ==
  [w EXCEPT !.f = [IdleFrame EXCEPT !.pc = "L267",
                     !.frames = Len(inp.primary_in_L),
                     !.primary_l = inp.primary_in_L,
                     !.primary_r = inp.primary_in_R,
                     !.secondary_l = inp.secondary_in_L,
                     !.secondary_r = inp.secondary_in_R]]

\* The callback run from where it stands to its return
RECURSIVE ProcessRun(_, _)
ProcessRun(w, samplerate) ==
  IF w.f.pc = "idle" THEN w ELSE ProcessRun(ProcessStep(w, samplerate), samplerate)

\* ------------------------------------------------------------------------
\* Routing: run_autoconnect() on the JACK graph
\* ------------------------------------------------------------------------
MS210x == "MS210x Video Grabber [EasierCAP] Analog Stereo"
Chromium == "Chromium"
Fosi == "Fosi Audio Q6 Analog Stereo"

AUDIO_CONNECTIONS ==
  << << "MS210x Video Grabber [EasierCAP] Analog Stereo:capture_FL",
        "AudioDucker:secondary_in_L" >>,
     << "MS210x Video Grabber [EasierCAP] Analog Stereo:capture_FR",
        "AudioDucker:secondary_in_R" >>,
     << "Chromium:output_FL", "AudioDucker:primary_in_L" >>,
     << "Chromium:output_FR", "AudioDucker:primary_in_R" >>,
     << "AudioDucker:output_L", "Fosi Audio Q6 Analog Stereo:playback_FL" >>,
     << "AudioDucker:output_R", "Fosi Audio Q6 Analog Stereo:playback_FR" >> >>

\* The clients other than AudioDucker, and the ports each brings
ExternalClients == {MS210x, Chromium, Fosi}

PortsOf(client) ==
  CASE client = MS210x ->
         { "MS210x Video Grabber [EasierCAP] Analog Stereo:capture_FL",
           "MS210x Video Grabber [EasierCAP] Analog Stereo:capture_FR" }
    [] client = Chromium -> { "Chromium:output_FL", "Chromium:output_FR" }
    [] client = Fosi ->
         { "Fosi Audio Q6 Analog Stereo:playback_FL",
           "Fosi Audio Q6 Analog Stereo:playback_FR" }

\* The ports AudioDucker registers in __init__
OwnPorts ==
  { "AudioDucker:primary_in_L", "AudioDucker:primary_in_R",
    "AudioDucker:secondary_in_L", "AudioDucker:secondary_in_R",
    "AudioDucker:output_L", "AudioDucker:output_R" }

Ports(g) == OwnPorts \cup UNION { PortsOf(c) : c \in g.clients }

\* subprocess.run(["pw-jack", "jack_connect", src, dst]): raises when the
\* program cannot be run; otherwise jack_connect exits 0 when it made the
\* connection, and 1 with a message on stderr when the server is away, a
\* port does not exist, or the two ports are connected already
JackConnect(g, src, dst) ==
  CASE ~g.tool ->
         [raised |-> TRUE, returncode |-> 0, links |-> g.links,
          stderr |-> "No such file or directory: 'pw-jack'"]
    [] g.tool /\ ~g.server ->
         [raised |-> FALSE, returncode |-> 1, links |-> g.links,
          stderr |-> "jack server not running?"]
    [] g.tool /\ g.server /\ ~({src, dst} \subseteq Ports(g)) ->
         [raised |-> FALSE, returncode |-> 1, links |-> g.links,
          stderr |-> "not a valid port"]
    [] g.tool /\ g.server /\ {src, dst} \subseteq Ports(g)
         /\ << src, dst >> \in g.links ->
         [raised |-> FALSE, returncode |-> 1, links |-> g.links,
          stderr |-> "cannot connect client, already connected?"]
    [] OTHER ->
         [raised |-> FALSE, returncode |-> 0, stderr |-> "",
          links |-> g.links \cup {<< src, dst >>}]

\* The loop of run_autoconnect from pair i on: out is the result so far
RECURSIVE AutoconnectFrom(_, _, _)
AutoconnectFrom(g, i, out) ==
  IF i > Len(AUDIO_CONNECTIONS) THEN [graph |-> g, result |-> out]
  ELSE
    LET src == AUDIO_CONNECTIONS[i][1]
        dst == AUDIO_CONNECTIONS[i][2]
        r == JackConnect(g, src, dst)
    IN  IF r.raised
          THEN AutoconnectFrom(g, i + 1,
                 [out EXCEPT !.failed =
                    Append(@, [from |-> src, to |-> dst, error |-> r.stderr])])
          ELSE AutoconnectFrom([g EXCEPT !.links = r.links], i + 1,
                 [out EXCEPT !.connected =
                    Append(@, [from |-> src, to |-> dst,
                               returncode |-> r.returncode,
                               stderr |-> r.stderr])])

run_autoconnect(g) ==
  AutoconnectFrom(g, 1, [connected |-> << >>, failed |-> << >>])

\* The graph when the program starts, as the other specifications keep it:
\* every client present, nothing connected.  runs holds the latest calls of
\* run_autoconnect (two at most) that no other change of the graph
\* separates: the links each found, and what it returned.
InitialGraph ==
  [ tool |-> TRUE, server |-> TRUE, clients |-> ExternalClients,
    links |-> {}, runs |-> << >> ]

\* ------------------------------------------------------------------------
\* State
\* ------------------------------------------------------------------------
VARIABLES
  self,         \* the AudioDucker object (the global `ducker`)
  port,         \* the buffers of the output ports output_L, output_R
  jack,         \* the JACK client: its state, samplerate and blocksize
  config_file,  \* ~/audio_ducker_config.json
  f,            \* the frame of the process callback (JACK's thread)
  mon,          \* the frame of monitor_loop (the monitor thread)
  api,          \* the control plane: what api_metrics last returned
  main,         \* the main thread: where it stands in start() and stop()
  h,            \* history: counters and what earlier steps did
  graph         \* the JACK graph, and what run_autoconnect() returned

vars == << self, port, jack, config_file, f, mon, api, main, h, graph >>

\* self.last_metrics as __init__ sets it
InitialMetrics ==
  [ primary_level_db |-> FLOOR_DB, secondary_level_db |-> FLOOR_DB,
    output_level_db |-> FLOOR_DB, primary_peak_db |-> FLOOR_DB,
    secondary_peak_db |-> FLOOR_DB, output_peak_db |-> FLOOR_DB,
    duck_amount |-> ONE, primary_active |-> FALSE, clipping |-> FALSE ]

\* AudioDucker.__init__
NewAudioDucker(file) ==
  [ settings |-> load_settings(file),
    primary_level |-> 0, secondary_level |-> 0, output_level |-> 0,
    clipping |-> FALSE,
    duck_amount |-> ONE, target_duck |-> ONE,
    primary_vu_history |-> << >>, secondary_vu_history |-> << >>,
    output_vu_history |-> << >>,
    last_metrics |-> InitialMetrics,
    running |-> TRUE ]

Silence(n) == [i \in 1..n |-> 0]

\* What the JACK server is configured with (the model's sample rates are
\* small so that a block of one or two frames spans a visible part of the
\* attack and release times)
SampleRates == {1000}
BlockSizes == {1, 2}

\* The persisted file the program may find when it starts
InitialFiles == { FileMissing, FileJson("release_time_ms" :> Num(8)) }

\* The input blocks of one callback, two frames long (a server with
\* blocksize 1 delivers the first frame of each)
Block(pl, pr, sl, sr) ==
  [ primary_in_L |-> pl, primary_in_R |-> pr,
    secondary_in_L |-> sl, secondary_in_R |-> sr ]

InputBlocks ==
  { Block(<<0, 0>>, <<0, 0>>, <<0, 0>>, <<0, 0>>),
    Block(<<316, -316>>, <<0, 0>>, <<0, 0>>, <<0, 0>>),
    Block(<<0, 0>>, <<0, 0>>, <<1000, -1000>>, <<-1000, 500>>),
    Block(<<316, 316>>, <<-316, 316>>, <<1000, -1000>>, <<500, 500>>),
    Block(<<10, 10>>, <<0, 0>>, <<500, -500>>, <<250, 0>>) }

Take(b, n) == [k \in DOMAIN b |-> SubSeq(b[k], 1, n)]

\* The bodies of POST /api/settings requests
Requests ==
  { "duck_amount_db" :> Num(6),
    ("attack_time_ms" :> Num(2)) @@ ("release_time_ms" :> Num(4)),
    "output_gain_db" :> Num(6),
    "primary_threshold_db" :> Str("auto"),
    ("primary_threshold_db" :> Num(-20)) @@ ("duck_amount_db" :> Num(-6)),
    "output_gain_db" :> Str("max") }

\* The monitor thread before start(): its locals, and where it stands
UnstartedMonitor ==
  [ pc |-> "unstarted", iter |-> 0,
    primary_db |-> FLOOR_DB, secondary_db |-> FLOOR_DB, output_db |-> FLOOR_DB,
    primary_peak |-> FLOOR_DB, secondary_peak |-> FLOOR_DB,
    output_peak |-> FLOOR_DB,
    duck_amount |-> ONE, primary_active |-> FALSE, clipping |-> FALSE ]

\* The fields of self that the callback writes, as it leaves them
EngineState(obj) ==
  [ primary_level |-> obj.primary_level,
    secondary_level |-> obj.secondary_level,
    output_level |-> obj.output_level,
    duck_amount |-> obj.duck_amount,
    clipping |-> obj.clipping ]

InitialHistory ==
  [ blocks |-> 0, updates |-> 0,
    prev_fault |-> 0,
    last_good |-> [output_L |-> << >>, output_R |-> << >>],
    loud_run |-> 0, silent_run |-> 0, run_start |-> 0,
    versions |-> {}, last_engine |-> EngineState(NewAudioDucker(FileMissing)),
    engine_states |-> {}, published |-> {},
    pubs_after_stop |-> 0, iter_at_stop |-> 0,
    starts |-> 0, stops |-> 0, activations |-> 0, launches |-> 0,
    noting |-> FALSE, write_failed |-> FALSE, update_raised |-> FALSE,
    restarts |-> 0,
    op |-> [name |-> "none", body |-> NoDoc, io |-> "none", blocks |-> 0] ]

Init ==
  /\ \E file \in InitialFiles :
       /\ config_file = file
       /\ self = NewAudioDucker(file)
  /\ \E sr \in SampleRates, bs \in BlockSizes :
       jack = [client |-> "inactive", samplerate |-> sr, blocksize |-> bs]
  /\ port = [output_L |-> Silence(jack.blocksize), output_R |-> Silence(jack.blocksize)]
  /\ f = IdleFrame
  /\ mon = UnstartedMonitor
  /\ api = [metrics |-> InitialMetrics, reads |-> 0]
  /\ main = "constructed"
  /\ graph = InitialGraph
  /\ h = [InitialHistory EXCEPT !.versions = {self.settings},
                                !.last_engine = EngineState(self),
                                !.engine_states = {EngineState(self)}]

\* ------------------------------------------------------------------------
\* Lifecycle (main thread)
\* ------------------------------------------------------------------------
\* AudioDucker.start(), as main() calls it: client.activate(), then the
\* monitor thread is started
start ==
  /\ main = "constructed"
  /\ jack' = [jack EXCEPT !.client = "active"]
  /\ mon' = [mon EXCEPT !.pc = "L359"]
  /\ main' = "serving"
  /\ UNCHANGED << self, port, config_file, f, api, h, graph >>

\* ------------------------------------------------------------------------
\* The process callback, run as a whole (no other thread runs meanwhile)
\* ------------------------------------------------------------------------
\* The buffers the host hands the callback for its output ports: what the
\* port held after the previous cycle, or a cleared buffer
HostBuffers == {"kept", "cleared"}

BuffersAtEntry(host) ==
  IF host = "cleared"
    THEN [output_L |-> Silence(jack.blocksize), output_R |-> Silence(jack.blocksize)]
    ELSE port

\* History of the callbacks, as a callback in world w1 adds to it.
\* loud_run and silent_run count the latest blocks, without interruption,
\* whose primary level was -10 dB, respectively the -100 dB floor, and
\* run_start is duck_amount as the first block of that run found it.
\* prev_fault is the fault of the callback before the one entered, and
\* versions the settings dicts installed since the latest callback was
\* entered, the one it found included.
AtEnter(hh, previous, obj) ==
  [hh EXCEPT !.prev_fault = previous.fault,
             !.versions = {obj.settings}]

AtReturn(hh, w1) ==
  LET loud   == w1.f.g_smoothed /\ linear_to_db(w1.f.primary_rms) = -10
      silent == w1.f.g_smoothed /\ linear_to_db(w1.f.primary_rms) = FLOOR_DB
  IN  [hh EXCEPT !.blocks = @ + 1,
                 !.last_good = IF w1.f.fault = 0 THEN w1.port ELSE @,
                 !.loud_run = IF loud THEN @ + 1 ELSE 0,
                 !.silent_run = IF silent THEN @ + 1 ELSE 0,
                 !.run_start =
                    IF (loud /\ hh.loud_run = 0) \/ (silent /\ hh.silent_run = 0)
                      THEN w1.f.g_duck_before
                      ELSE IF loud \/ silent THEN @ ELSE 0]

\* The monitor is inside an iteration of its loop
MidIteration(monitor) == monitor.pc \notin {"unstarted", "L359", "done"}

\* last_engine is the engine state the latest callback has left, and
\* engine_states the engine states that were there to be read since the
\* monitor began the iteration it is in.
LeftBy(hh, obj, monitor) ==
  [hh EXCEPT !.last_engine = EngineState(obj),
             !.engine_states = IF MidIteration(monitor)
                                 THEN @ \cup {EngineState(obj)} ELSE @]

\* A callback has left its engine state when it has made its last write to
\* self: it is about to write the port buffers, or has raised.
AtLastWrite(hh, w1, monitor) ==
  IF w1.f.pc \in {"L346", "except"} THEN LeftBy(hh, w1.self, monitor) ELSE hh

\* A settings dict installed while a callback runs is one more version
\* that callback may read
Installed(hh, frame, settings) ==
  [hh EXCEPT !.updates = @ + 1,
             !.versions = IF frame.pc # "idle" THEN @ \cup {settings} ELSE @]

\* Where the history notes the requests (hh.noting), op is the latest
\* request of the control plane: the handler and how it answered, the body,
\* what the file system did to the save ("none" when no save was tried),
\* and the number of callbacks that had run; write_failed tells whether any
\* save has failed so far, update_raised whether any settings.update(data)
\* has raised.
Noted(hh, name, body, io) ==
  IF hh.noting
    THEN [hh EXCEPT !.op = [name |-> name, body |-> body, io |-> io,
                            blocks |-> hh.blocks],
                    !.write_failed = @ \/ io \notin {"ok", "none"},
                    !.update_raised = @ \/ name = "update_raised"]
    ELSE hh

ProcessBlock(inputs, limit) ==
  /\ jack.client = "active"
  /\ f.pc = "idle"
  /\ h.blocks < limit
  /\ \E inp \in inputs, host \in HostBuffers :
       \E w1 \in { ProcessRun(
                       ProcessEnter([self |-> self, f |-> f,
                                     port |-> BuffersAtEntry(host)],
                                    Take(inp, jack.blocksize)),
                       jack.samplerate) } :
           /\ self' = w1.self
           /\ f' = w1.f
           /\ port' = w1.port
           /\ h' = AtReturn(LeftBy(AtEnter(h, f, self), w1.self, mon), w1)
  /\ UNCHANGED << jack, config_file, mon, api, main, graph >>

process == ProcessBlock(InputBlocks, MaxBlocks)

\* ------------------------------------------------------------------------
\* The control plane
\* ------------------------------------------------------------------------
\* POST /api/settings: ducker.settings.update(data); ducker.save_settings()
api_update_settings(requests, ios) ==
  /\ main = "serving"
  /\ h.updates < MaxUpdates
  /\ \E data \in requests, io \in ios :
       /\ self' = [self EXCEPT !.settings = DictUpdate(@, data)]
       /\ config_file' = save_settings(config_file, self'.settings, io)
       /\ h' = Noted(Installed(h, f, self'.settings), "update", data, io)
  /\ UNCHANGED << port, jack, f, mon, api, main, graph >>

\* POST /api/settings with a JSON array as body: settings.update(data)
\* stores its pairs; when it raises, Flask answers 500 and save_settings()
\* is not reached
api_update_settings_array(requests, ios) ==
  /\ main = "serving"
  /\ h.updates < MaxUpdates
  /\ \E data \in requests, io \in ios :
       LET r == UpdateFromSeq(self.settings, data)
       IN  /\ self' = [self EXCEPT !.settings = r.dict]
           /\ config_file' = IF r.raised THEN config_file
                             ELSE save_settings(config_file, r.dict, io)
           /\ h' = IF r.raised
                     THEN Noted(Installed(h, f, r.dict), "update_raised", data, "none")
                     ELSE Noted(Installed(h, f, r.dict), "update_array", data, io)
  /\ UNCHANGED << port, jack, f, mon, api, main, graph >>

AfterRemove_kept(file) == file

\* os.remove(config_file)
AfterRemove(file) == FileMissing

\* POST /api/reset-settings: the file is removed if it exists, settings
\* become load_settings(), and are saved.  When os.remove raises, the
\* handler answers 500 and nothing else is done.
api_reset_settings(ios) ==
  /\ main = "serving"
  /\ h.updates < MaxUpdates
  /\ \E removed \in BOOLEAN, io \in ios :
       IF config_file.kind # "missing" /\ ~removed
         THEN /\ UNCHANGED << self, config_file, graph >>
              /\ h' = Noted(Installed(h, f, self.settings), "reset_failed",
                            NoDoc, "none")
         ELSE /\ self' = [self EXCEPT !.settings =
                                        load_settings(AfterRemove(config_file))]
              /\ config_file' = save_settings(AfterRemove(config_file),
                                              self'.settings, io)
              /\ h' = Noted(Installed(h, f, self'.settings), "reset", NoDoc, io)
  /\ UNCHANGED << port, jack, f, mon, api, main, graph >>

Next ==
  \/ start
  \/ process
  \/ api_update_settings(Requests, HealthyDisk)
  \/ api_reset_settings(HealthyDisk)

Spec == Init /\ [][Next]_vars

\* ------------------------------------------------------------------------
\* The attack and release scenarios: an engine started on a persisted file
\* that sets the two times, fed blocks whose primary is at -10 dB and then
\* blocks whose primary is silent, the settings left alone.
\* ------------------------------------------------------------------------
ScenarioTimes == {1, 2, 5}

ScenarioFiles ==
  { FileJson(("attack_time_ms" :> Num(a)) @@ ("release_time_ms" :> Num(r))) :
      a \in ScenarioTimes, r \in ScenarioTimes }

LoudBlocks == { b \in InputBlocks : linear_to_db(calculate_rms(b.primary_in_L)) = -10 }
SilentBlocks == { b \in InputBlocks : calculate_rms(b.primary_in_L) = 0 }

ScenarioInit ==
  /\ \E file \in ScenarioFiles :
       /\ config_file = file
       /\ self = NewAudioDucker(file)
  /\ \E sr \in SampleRates, bs \in BlockSizes :
       jack = [client |-> "inactive", samplerate |-> sr, blocksize |-> bs]
  /\ port = [output_L |-> Silence(jack.blocksize), output_R |-> Silence(jack.blocksize)]
  /\ f = IdleFrame
  /\ mon = UnstartedMonitor
  /\ api = [metrics |-> InitialMetrics, reads |-> 0]
  /\ main = "constructed"
  /\ graph = InitialGraph
  /\ h = [InitialHistory EXCEPT !.versions = {self.settings},
                                !.last_engine = EngineState(self),
                                !.engine_states = {EngineState(self)}]

LoudBlock == h.silent_run = 0 /\ ProcessBlock(LoudBlocks, MaxRun)
SilentBlock == ProcessBlock(SilentBlocks, MaxRun)

ScenarioNext ==
  \/ start
  \/ LoudBlock
  \/ SilentBlock

SpecScenario == ScenarioInit /\ [][ScenarioNext]_vars

\* ------------------------------------------------------------------------
\* monitor_loop, one step at a time.  Between two steps any other thread
\* may run; a step reads or writes self at most once.
\* ------------------------------------------------------------------------
HistCap == 20         \* deque(maxlen=20)

DequeAppend_drops_newest(d, x) ==
  IF Len(d) = HistCap THEN Append(SubSeq(d, 1, HistCap - 1), x) ELSE Append(d, x)

\* deque.append on a deque with maxlen: the oldest entry is dropped
DequeAppend(d, x) ==
  IF Len(d) = HistCap THEN Append(Tail(d), x) ELSE Append(d, x)

RECURSIVE MaxOf(_)
MaxOf(d) == IF Len(d) = 1 THEN d[1] ELSE Max2(Head(d), MaxOf(Tail(d)))

\* The dict the loop builds from its locals
Metrics(m) ==
  [ primary_level_db |-> m.primary_db, secondary_level_db |-> m.secondary_db,
    output_level_db |-> m.output_db, primary_peak_db |-> m.primary_peak,
    secondary_peak_db |-> m.secondary_peak, output_peak_db |-> m.output_peak,
    duck_amount |-> m.duck_amount, primary_active |-> m.primary_active,
    clipping |-> m.clipping ]

Publish_keeps_duck_amount(obj, metrics) ==
  [obj EXCEPT !.last_metrics =
          [metrics EXCEPT !.duck_amount = obj.last_metrics.duck_amount]]

\* self.last_metrics = metrics: the attribute is rebound to the new dict
Publish(obj, metrics) == [obj EXCEPT !.last_metrics = metrics]

LoopCondition_ignores_flag(obj) == TRUE

\* while self.running
LoopCondition(obj) == obj.running

MonitorStep(obj, m) ==
  LET to(pc) == [self |-> obj, mon |-> [m EXCEPT !.pc = pc]]
      threshold == obj.settings["primary_threshold_db"]
  IN
  CASE m.pc = "L359" ->
         IF LoopCondition(obj)
           THEN [self |-> obj, mon |-> [m EXCEPT !.pc = "L361", !.iter = @ + 1]]
           ELSE to("done")
    [] m.pc = "L361" ->
         [self |-> obj,
          mon |-> [m EXCEPT !.pc = "L362",
                            !.primary_db = linear_to_db(obj.primary_level)]]
    [] m.pc = "L362" ->
         [self |-> obj,
          mon |-> [m EXCEPT !.pc = "L363",
                            !.secondary_db = linear_to_db(obj.secondary_level)]]
    [] m.pc = "L363" ->
         [self |-> obj,
          mon |-> [m EXCEPT !.pc = "L365",
                            !.output_db = linear_to_db(obj.output_level)]]
    [] m.pc = "L365" ->
         LET p == DequeAppend(obj.primary_vu_history, m.primary_db)
             s == DequeAppend(obj.secondary_vu_history, m.secondary_db)
             o == DequeAppend(obj.output_vu_history, m.output_db)
         IN  [self |-> [obj EXCEPT !.primary_vu_history = p,
                                   !.secondary_vu_history = s,
                                   !.output_vu_history = o],
              mon |-> [m EXCEPT !.pc = "L380",
                                !.primary_peak = MaxOf(p),
                                !.secondary_peak = MaxOf(s),
                                !.output_peak = MaxOf(o)]]
    [] m.pc = "L380" ->
         [self |-> obj,
          mon |-> [m EXCEPT !.pc = "L381", !.duck_amount = obj.duck_amount]]
    [] m.pc = "L381" ->
         IF IsNum(threshold)
           THEN [self |-> obj,
                 mon |-> [m EXCEPT !.pc = "L382",
                                   !.primary_active = m.primary_db > threshold.val]]
           ELSE to("except")
    [] m.pc = "L382" ->
         [self |-> obj,
          mon |-> [m EXCEPT !.pc = "L386", !.clipping = obj.clipping]]
    [] m.pc = "L386" ->
         [self |-> Publish(obj, Metrics(m)), mon |-> [m EXCEPT !.pc = "L389"]]
    \* the emits (the threshold is read again for "vu_update") and the sleep
    [] m.pc = "L389" -> IF IsNum(threshold) THEN to("L359") ELSE to("except")
    \* except Exception: print, sleep, and around the loop again
    [] m.pc = "except" -> to("L359")

\* ------------------------------------------------------------------------
\* The threads side by side: the process callback and monitor_loop advance
\* one step at a time, between the requests of the control plane
\* ------------------------------------------------------------------------
MaxConcBlocks == 2    \* process callbacks per behaviour, beside updates
MaxSeenBlocks == 1    \* process callbacks per behaviour, beside the monitor
MaxIters == 2         \* iterations of monitor_loop per behaviour
MaxReads == 1         \* GET /api/metrics requests per behaviour

ConcBlocks ==
  { Block(<<0, 0>>, <<0, 0>>, <<0, 0>>, <<0, 0>>),
    Block(<<316, 316>>, <<-316, 316>>, <<1000, -1000>>, <<500, 500>>) }

\* JACK calls the callback for a cycle
ProcessEnters(inputs, hosts, limit) ==
  /\ jack.client = "active"
  /\ f.pc = "idle"
  /\ h.blocks < limit
  /\ \E inp \in inputs, host \in hosts :
       \E w1 \in { ProcessEnter([self |-> self, f |-> f,
                                 port |-> BuffersAtEntry(host)],
                                Take(inp, jack.blocksize)) } :
           /\ f' = w1.f
           /\ port' = w1.port
  /\ h' = AtEnter(h, f, self)
  /\ UNCHANGED << self, jack, config_file, mon, api, main, graph >>

\* The callback executes its next statement
ProcessSteps ==
  /\ f.pc # "idle"
  /\ \E w1 \in { ProcessStep([self |-> self, f |-> f, port |-> port],
                             jack.samplerate) } :
       /\ self' = w1.self
       /\ f' = w1.f
       /\ port' = w1.port
       /\ h' = IF w1.f.pc = "idle"
                 THEN AtReturn(h, w1)
                 ELSE AtLastWrite(h, w1, mon)
  /\ UNCHANGED << jack, config_file, mon, api, main, graph >>

\* monitor_loop executes its next statement, for at most limit iterations
MonitorRuns(limit) ==
  /\ mon.pc \notin {"unstarted", "done"}
  /\ mon.pc = "L359" => (mon.iter < limit \/ ~LoopCondition(self))
  /\ \E r \in { MonitorStep(self, mon) } :
       /\ self' = r.self
       /\ mon' = r.mon
       /\ h' = CASE mon.pc = "L359" ->
                      [h EXCEPT !.engine_states = {h.last_engine}]
                 [] mon.pc = "L386" ->
                      [h EXCEPT !.published = @ \cup {Metrics(mon)},
                                !.pubs_after_stop =
                                   IF self.running THEN @ ELSE @ + 1]
                 [] OTHER -> h
  /\ UNCHANGED << port, jack, config_file, f, api, main, graph >>

MonitorSteps == MonitorRuns(MaxIters)

\* GET /api/metrics: jsonify(ducker.last_metrics)
api_metrics ==
  /\ main = "serving"
  /\ api.reads < MaxReads
  /\ api' = [metrics |-> self.last_metrics, reads |-> api.reads + 1]
  /\ UNCHANGED << self, port, jack, config_file, f, mon, main, h, graph >>

\* AudioDucker.stop(), as main() calls it when the server has ended:
\* self.running = False
stop_L467 ==
  /\ main = "serving"
  /\ self' = [self EXCEPT !.running = FALSE]
  /\ main' = "L468"
  /\ h' = [h EXCEPT !.iter_at_stop = mon.iter]
  /\ UNCHANGED << port, jack, config_file, f, mon, api, graph >>

\* self.client.deactivate(): JACK takes the client out of the graph, and
\* returns when the cycle in progress is over
stop_L468 ==
  /\ main = "L468"
  /\ f.pc = "idle"
  /\ jack' = [jack EXCEPT !.client = "inactive"]
  /\ main' = "L469"
  /\ UNCHANGED << self, port, config_file, f, mon, api, h, graph >>

\* self.client.close(), and stop() returns
stop_L469 ==
  /\ main = "L469"
  /\ jack' = [jack EXCEPT !.client = "closed"]
  /\ main' = "stopped"
  /\ UNCHANGED << self, port, config_file, f, mon, api, h, graph >>

ConcRequests ==
  { ("primary_threshold_db" :> Num(-20)) @@ ("duck_amount_db" :> Num(-6)),
    "primary_threshold_db" :> Str("auto") }

\* The engine on a server of blocksize 1, started without a persisted file
\* or on one an earlier request has left, whose threshold the monitor
\* cannot compare
MonitorFiles == { FileMissing, FileJson("primary_threshold_db" :> Str("auto")) }

MonitorInit ==
  /\ \E file \in MonitorFiles :
       /\ config_file = file
       /\ self = NewAudioDucker(file)
  /\ \E sr \in SampleRates :
       jack = [client |-> "inactive", samplerate |-> sr, blocksize |-> 1]
  /\ port = [output_L |-> Silence(jack.blocksize), output_R |-> Silence(jack.blocksize)]
  /\ f = IdleFrame
  /\ mon = UnstartedMonitor
  /\ api = [metrics |-> InitialMetrics, reads |-> 0]
  /\ main = "constructed"
  /\ graph = InitialGraph
  /\ h = [InitialHistory EXCEPT !.versions = {self.settings},
                                !.last_engine = EngineState(self),
                                !.engine_states = {EngineState(self)}]

\* A control-plane update while the callback runs
TearNext ==
  \/ start
  \/ ProcessEnters(ConcBlocks, HostBuffers, MaxConcBlocks)
  \/ ProcessSteps
  \/ api_update_settings(ConcRequests, HealthyDisk)
  \/ api_reset_settings(HealthyDisk)

SpecTear == Init /\ [][TearNext]_vars

\* The callback, the monitor and a reader of /api/metrics
MetricsNext ==
  \/ start
  \/ ProcessEnters(ConcBlocks, {"cleared"}, MaxSeenBlocks)
  \/ ProcessSteps
  \/ MonitorSteps
  \/ api_metrics

SpecMetrics == MonitorInit /\ [][MetricsNext]_vars

\* The callback and the monitor while main() stops the engine
StopNext ==
  \/ start
  \/ ProcessEnters(LoudBlocks \cap ConcBlocks, {"cleared"}, MaxSeenBlocks)
  \/ ProcessSteps
  \/ MonitorSteps
  \/ stop_L467
  \/ stop_L468
  \/ stop_L469

\* The monitor thread is scheduled again and again
SpecStop == MonitorInit /\ [][StopNext]_vars /\ WF_vars(MonitorSteps)

\* ------------------------------------------------------------------------
\* The level histories: the monitor iterates until the histories are full
\* and beyond, so that its first readings are evicted.  Callbacks (run
\* whole here: the histories are the monitor's alone, and it reads each
\* level into a local of its own) raise and lower the levels before and
\* during the monitor's first two iterations, so that the oldest readings
\* differ from the later ones.
\* ------------------------------------------------------------------------
MaxHistIters == 22    \* iterations of monitor_loop per behaviour
MaxHistBlocks == 2    \* process callbacks per behaviour

MonitorIterates == MonitorRuns(MaxHistIters)

SoundArrives ==
  /\ mon.iter <= 2
  /\ ProcessBlock(ConcBlocks, MaxHistBlocks)

HistoryNext ==
  \/ start
  \/ SoundArrives
  \/ MonitorIterates

SpecHistory == MonitorInit /\ [][HistoryNext]_vars

\* ------------------------------------------------------------------------
\* start() and stop() called in any state of the engine
\* ------------------------------------------------------------------------
MaxCalls == 3         \* calls of start() and stop() per behaviour

\* client.activate(): JACK refuses a closed client (JackError), and leaves
\* an active client as it is
Activate(client) ==
  CASE client = "closed" -> [client |-> client, raised |-> TRUE]
    [] OTHER -> [client |-> "active", raised |-> FALSE]

ThreadStart_again(m) ==
  [mon |-> [m EXCEPT !.pc = "L359"], raised |-> FALSE]

\* Thread.start(): a thread can be started once; RuntimeError otherwise
ThreadStart(m) ==
  IF m.pc = "unstarted"
    THEN [mon |-> [m EXCEPT !.pc = "L359"], raised |-> FALSE]
    ELSE [mon |-> m, raised |-> TRUE]

\* AudioDucker.start(), whoever calls it and whenever
start_call ==
  /\ h.starts + h.stops < MaxCalls
  /\ f.pc = "idle"
  /\ LET a == Activate(jack.client)
         t == ThreadStart(mon)
     IN  /\ jack' = [jack EXCEPT !.client = a.client]
         /\ mon' = IF a.raised THEN mon ELSE t.mon
         /\ main' = IF ~a.raised /\ ~t.raised THEN "serving" ELSE main
         /\ h' = [h EXCEPT !.starts = @ + 1,
                           !.activations =
                              IF jack.client # "active" /\ a.client = "active"
                                THEN @ + 1 ELSE @,
                           !.launches =
                              IF ~a.raised /\ ~t.raised THEN @ + 1 ELSE @]
  /\ UNCHANGED << self, port, config_file, f, api, graph >>

\* AudioDucker.stop(), whoever calls it and whenever: running is cleared,
\* deactivate() and close() ignore JACK's errors
stop_call ==
  /\ h.starts + h.stops < MaxCalls
  /\ f.pc = "idle"
  /\ self' = [self EXCEPT !.running = FALSE]
  /\ jack' = [jack EXCEPT !.client = "closed"]
  /\ main' = "stopped"
  /\ h' = [h EXCEPT !.stops = @ + 1,
                    !.iter_at_stop = IF self.running THEN mon.iter ELSE @]
  /\ UNCHANGED << port, config_file, f, mon, api, graph >>

LifecycleNext ==
  \/ start_call
  \/ stop_call
  \/ ProcessBlock(LoudBlocks \cap ConcBlocks, MaxSeenBlocks)
  \/ MonitorSteps

SpecLifecycle == MonitorInit /\ [][LifecycleNext]_vars

\* ------------------------------------------------------------------------
\* The control plane and the persisted file: requests with any body, a
\* file system that may fail, and the program started again on the file
\* it finds
\* ------------------------------------------------------------------------
MaxRestarts == 1      \* times the program is started again per behaviour

\* What ~/audio_ducker_config.json may hold when the program starts
SettingsFiles ==
  { FileMissing,
    FileCorrupt,
    FileJson(("attack_time_ms" :> Num(10)) @@ ("theme" :> Str("dark"))),
    FileList(<< Pair("attack_time_ms", Num(10)), NotAPair >>),
    FileList(<< NotAPair >>) }

\* Bodies of POST /api/settings that are JSON objects
SettingsRequests ==
  { "attack_time_ms" :> Num(10),
    ("duck_amount_db" :> Num(-6)) @@ ("custom_key" :> Str("kept")),
    NoDoc }

\* Bodies of POST /api/settings that are JSON arrays
ArrayRequests ==
  { << Pair("release_time_ms", Num(4)), NotAPair >>,
    << Pair("release_time_ms", Num(4)) >> }

SettingsInit ==
  /\ \E file \in SettingsFiles :
       /\ config_file = file
       /\ self = NewAudioDucker(file)
  /\ \E sr \in SampleRates :
       jack = [client |-> "inactive", samplerate |-> sr, blocksize |-> 1]
  /\ port = [output_L |-> Silence(jack.blocksize), output_R |-> Silence(jack.blocksize)]
  /\ f = IdleFrame
  /\ mon = UnstartedMonitor
  /\ api = [metrics |-> InitialMetrics, reads |-> 0]
  /\ main = "constructed"
  /\ graph = InitialGraph
  /\ h = [InitialHistory EXCEPT !.versions = {self.settings},
                                !.last_engine = EngineState(self),
                                !.engine_states = {EngineState(self)},
                                !.noting = TRUE,
                                !.op.name = "load"]

\* The program ends and main() runs again: a new AudioDucker is
\* constructed on the file as it is
restart ==
  /\ h.restarts < MaxRestarts
  /\ self' = NewAudioDucker(config_file)
  /\ jack' = [jack EXCEPT !.client = "inactive"]
  /\ port' = [output_L |-> Silence(jack.blocksize), output_R |-> Silence(jack.blocksize)]
  /\ f' = IdleFrame
  /\ mon' = UnstartedMonitor
  /\ api' = [metrics |-> InitialMetrics, reads |-> 0]
  /\ main' = "constructed"
  /\ h' = [Noted(h, "load", NoDoc, "none") EXCEPT
             !.restarts = @ + 1,
             !.versions = {self'.settings},
             !.last_engine = EngineState(self'),
             !.engine_states = {EngineState(self')}]
  /\ UNCHANGED << config_file, graph >>

SettingsNext ==
  \/ start
  \/ ProcessBlock(LoudBlocks \cap ConcBlocks, MaxSeenBlocks)
  \/ api_update_settings(SettingsRequests, IoOutcomes)
  \/ api_update_settings_array(ArrayRequests, IoOutcomes)
  \/ api_reset_settings(IoOutcomes)
  \/ restart

SpecSettings == SettingsInit /\ [][SettingsNext]_vars

\* ------------------------------------------------------------------------
\* run_autoconnect() called again and again (by main() at startup, by
\* connection_watchdog every 10 s, by POST /api/autoconnect) while clients
\* come and go
\* ------------------------------------------------------------------------
LastTwo(s) == IF Len(s) > 2 THEN Tail(s) ELSE s

autoconnect_pass ==
  /\ \E r \in { run_autoconnect(graph) } :
       graph' = [r.graph EXCEPT !.runs =
                   LastTwo(Append(graph.runs,
                                  [found |-> graph.links, result |-> r.result]))]
  /\ UNCHANGED << self, port, jack, config_file, f, mon, api, main, h >>

\* A client joins the graph with its ports
ClientAppears ==
  /\ \E c \in ExternalClients \ graph.clients :
       graph' = [graph EXCEPT !.clients = @ \cup {c}, !.runs = << >>]
  /\ UNCHANGED << self, port, jack, config_file, f, mon, api, main, h >>

\* A client leaves the graph: its ports and their connections go
ClientVanishes ==
  /\ \E c \in graph.clients :
       graph' = [graph EXCEPT
                   !.clients = @ \ {c},
                   !.links = { l \in @ : l[1] \notin PortsOf(c)
                                          /\ l[2] \notin PortsOf(c) },
                   !.runs = << >>]
  /\ UNCHANGED << self, port, jack, config_file, f, mon, api, main, h >>

RoutingInit ==
  /\ \E file \in {FileMissing} :
       /\ config_file = file
       /\ self = NewAudioDucker(file)
  /\ \E sr \in SampleRates :
       jack = [client |-> "inactive", samplerate |-> sr, blocksize |-> 1]
  /\ port = [output_L |-> Silence(jack.blocksize), output_R |-> Silence(jack.blocksize)]
  /\ f = IdleFrame
  /\ mon = UnstartedMonitor
  /\ api = [metrics |-> InitialMetrics, reads |-> 0]
  /\ main = "constructed"
  /\ \E tool \in BOOLEAN, server \in BOOLEAN, clients \in SUBSET ExternalClients :
       graph = [InitialGraph EXCEPT !.tool = tool, !.server = server,
                                    !.clients = clients]
  /\ h = [InitialHistory EXCEPT !.versions = {self.settings},
                                !.last_engine = EngineState(self),
                                !.engine_states = {EngineState(self)}]

RoutingNext ==
  \/ start
  \/ autoconnect_pass
  \/ ClientAppears
  \/ ClientVanishes

SpecRouting == RoutingInit /\ [][RoutingNext]_vars

\* ------------------------------------------------------------------------
\* Properties of one block (specification Spec)
\* ------------------------------------------------------------------------
BlockDone == f.pc = "idle" /\ h.blocks > 0
BlockWritten == BlockDone /\ f.fault = 0

Between(x, a, b) == Min2(a, b) <= x /\ x <= Max2(a, b)

\* C1: after the smoothing step of every block, duck_amount lies between
\* its value before the block and target_duck, and within [0, 1], whatever
\* settings the control plane has installed.
C1_DuckAmountBounded ==
  (BlockDone /\ f.g_smoothed) =>
     /\ Between(self.duck_amount, f.g_duck_before, self.target_duck)
     /\ 0 <= self.duck_amount
     /\ self.duck_amount <= ONE

\* C4: the limiter rescales the block exactly when the peak of the two
\* output channels after the output gain is strictly above 1.0; a block
\* whose peak is 1.0 or lower is written as it is, and the clipping flag
\* after the block is exactly (peak > 1.0).
C4_LimiterStrict ==
  BlockWritten =>
    LET peak == Max2(PeakAbs(f.g_mix_l), PeakAbs(f.g_mix_r))
    IN  /\ self.clipping = (peak > ONE)
        /\ peak <= ONE => /\ port.output_L = f.g_mix_l
                          /\ port.output_R = f.g_mix_r
        /\ peak > ONE  => /\ port.output_L = DivSeq(f.g_mix_l, peak)
                          /\ port.output_R = DivSeq(f.g_mix_r, peak)
                          /\ port.output_L # f.g_mix_l \/ port.output_R # f.g_mix_r

\* a block whose peak is exactly 1.0 has been written, unscaled
C4_Witness ==
  /\ BlockWritten
  /\ Max2(PeakAbs(f.g_mix_l), PeakAbs(f.g_mix_r)) = ONE
  /\ ~self.clipping

\* C5: after every block written, no output sample exceeds 1.0 in absolute
\* value, and when the limiter engaged the block's peak is exactly 1.0; a
\* full-scale secondary with a silent primary, duck_amount 1.0 and an
\* output gain of 6 dB engages the limiter.
FullScaleScenario ==
  /\ BlockWritten
  /\ f.primary_rms = 0
  /\ Max2(PeakAbs(f.secondary_l), PeakAbs(f.secondary_r)) = ONE
  /\ self.duck_amount = ONE
  /\ f.g_used["output_gain_db"] = Num(6)

C5_OutputWithinFullScale ==
  BlockWritten =>
    LET peak == Max2(PeakAbs(port.output_L), PeakAbs(port.output_R))
    IN  /\ peak <= ONE
        /\ self.clipping => peak = ONE
        /\ FullScaleScenario => self.clipping /\ peak = ONE

C5_Witness == FullScaleScenario /\ self.clipping

RECURSIVE Pow(_, _)
Pow(b, e) == IF e = 0 THEN 1 ELSE b * Pow(b, e - 1)

CeilDiv(a, b) == (a + b - 1) \div b

\* attack_samples and release_samples of the settings in force, in whole
\* samples, and the block size
AttackSamples ==
  TimeToSamples(self.settings["attack_time_ms"].val, jack.samplerate) \div 1000
ReleaseSamples ==
  TimeToSamples(self.settings["release_time_ms"].val, jack.samplerate) \div 1000
BlockSize == jack.blocksize

\* Every block so far had its primary at -10 dB, the first of them found
\* duck_amount = 1.0, and the threshold is -40 dB, the duck amount -20 dB.
AttackScenario ==
  /\ BlockDone
  /\ self.settings["primary_threshold_db"] = Num(-40)
  /\ self.settings["duck_amount_db"] = Num(-20)
  /\ h.loud_run = h.blocks
  /\ h.run_start = ONE

\* The latest blocks had a silent primary, and the first of them found the
\* engine ducked, under the same settings.
ReleaseScenario ==
  /\ BlockDone
  /\ self.settings["primary_threshold_db"] = Num(-40)
  /\ self.settings["duck_amount_db"] = Num(-20)
  /\ h.silent_run >= 1
  /\ h.run_start < ONE

AttackTimeExceeded == h.loud_run * BlockSize > AttackSamples
ReleaseTimeSpanned == h.silent_run >= CeilDiv(ReleaseSamples, BlockSize)

\* the change the latest block's smoothing step made, and one unit of
\* rounding
LastStep == Abs(self.duck_amount - f.g_duck_before) + 1

\* the largest change any block's smoothing step makes in the attack
\* scenario (the first block's), and one unit of rounding
LargestStep ==
  CeilDiv((ONE - db_to_linear(-20)) * BlockSize, Max2(AttackSamples, 1)) + 1

\* C2 as stated: in the attack scenario, once blocks * block size exceeds
\* attack_samples, duck_amount is within one block's smoothing step of the
\* target 0.1 (the largest step any block made is allowed here).
C2_ConvergedAfterAttackTime ==
  (AttackScenario /\ AttackTimeExceeded) =>
     Abs(self.duck_amount - db_to_linear(-20)) <= LargestStep

\* C2 amended: in the attack scenario duck_amount falls toward 0.1 without
\* passing it, and after k blocks of N frames its distance from 0.1 is
\* 0.9 * (1 - N / attack_samples)^k up to rounding: nothing when
\* N >= attack_samples, and within one block's step of 0.1 once the attack
\* time is exceeded when N >= attack_samples / 2.
C2_GeometricAttack ==
  AttackScenario =>
    LET k  == h.loud_run
        e  == self.duck_amount - db_to_linear(-20)
        e0 == ONE - db_to_linear(-20)
        A  == AttackSamples
        N  == BlockSize
    IN  /\ 0 <= e
        /\ self.duck_amount <= f.g_duck_before
        /\ N >= A => e = 0
        /\ N < A => /\ e * Pow(A, k) >= e0 * Pow(A - N, k)
                    /\ e * Pow(A, k) <= e0 * Pow(A - N, k) + k * Pow(A, k)
        /\ (2 * N >= A /\ AttackTimeExceeded) => e <= LastStep

\* the attack time is exceeded and duck_amount is further from 0.1 than
\* the largest step
C2_Witness ==
  /\ AttackScenario
  /\ AttackTimeExceeded
  /\ self.duck_amount - db_to_linear(-20) > LargestStep

\* C3 as stated: from a ducked state, with a silent primary in every block,
\* duck_amount is 1.0 after the blocks that span release_time_ms.
C3_ReleasedWithinReleaseTime ==
  (ReleaseScenario /\ ReleaseTimeSpanned) => self.duck_amount = ONE

\* C3 amended: from a ducked state, with a silent primary in every block,
\* duck_amount rises toward 1.0 without passing it, and after k blocks of
\* N frames its distance from 1.0 is the initial distance times
\* (1 - N / release_samples)^k up to rounding: it is 1.0 within the blocks
\* that span release_time_ms only when N >= release_samples.
C3_GeometricRelease ==
  ReleaseScenario =>
    LET k  == h.silent_run
        e  == ONE - self.duck_amount
        e0 == ONE - h.run_start
        R  == ReleaseSamples
        N  == BlockSize
    IN  /\ 0 <= e
        /\ f.g_duck_before <= self.duck_amount
        /\ N >= R => e = 0
        /\ N < R => /\ e * Pow(R, k) >= e0 * Pow(R - N, k)
                    /\ e * Pow(R, k) <= e0 * Pow(R - N, k) + k * Pow(R, k)
                    /\ e > 0

\* the blocks that span the release time are processed and duck_amount is
\* still below 1.0
C3_Witness ==
  /\ ReleaseScenario
  /\ ReleaseTimeSpanned
  /\ self.duck_amount < ONE

\* ------------------------------------------------------------------------
\* Properties of the threads side by side
\* ------------------------------------------------------------------------
\* C7: all the settings values one execution of process uses come from one
\* and the same settings version, among those installed since it was
\* entered, whatever control-plane update runs meanwhile.
C7_OneVersionPerBlock ==
  \E s \in h.versions : \A k \in DOMAIN f.g_used : f.g_used[k] = s[k]

\* C8: what a reader of /api/metrics obtains is the initial snapshot or
\* the complete dict of exactly one publication of the monitor, never
\* fields of two publications nor a dict with fields missing.
C8_ReaderGetsOnePublication ==
  /\ api.metrics \in h.published \cup {InitialMetrics}
  /\ DOMAIN api.metrics = DOMAIN InitialMetrics

\* A reader has obtained a publication that is not the initial snapshot,
\* and the monitor has published another since
C8_Witness ==
  /\ api.reads > 0
  /\ api.metrics \in h.published
  /\ api.metrics # InitialMetrics
  /\ self.last_metrics # api.metrics

\* snapshot m shows the levels, duck_amount and clipping of engine state e
ShowsEngine(m, e) ==
  /\ m.primary_level_db = linear_to_db(e.primary_level)
  /\ m.secondary_level_db = linear_to_db(e.secondary_level)
  /\ m.output_level_db = linear_to_db(e.output_level)
  /\ m.duck_amount = e.duck_amount
  /\ m.clipping = e.clipping

\* C9: every snapshot the monitor publishes shows the levels, duck_amount
\* and clipping flag that one single execution of process has left (or the
\* initial ones), whatever the callback does while the monitor iterates.
C9_SnapshotOfOneExecution ==
  mon.pc = "L389" => \E e \in h.engine_states : ShowsEngine(self.last_metrics, e)

\* C10: once stop() has returned the callback is not running and never
\* runs again, engine state and port buffers stay as they are, the
\* monitor begins no iteration after running was cleared, publishes at
\* most the snapshot of the iteration in progress, and eventually ends.
C10_StopQuiesces ==
  /\ [](main = "stopped" => f.pc = "idle")
  /\ [][main = "stopped" =>
          /\ f' = f
          /\ port' = port
          /\ EngineState(self') = EngineState(self)]_vars
  /\ [](~self.running => /\ mon.iter = h.iter_at_stop
                         /\ h.pubs_after_stop <= 1)
  /\ (main = "stopped" ~> mon.pc = "done")

\* stop() has returned after a callback ran, the monitor has published the
\* snapshot of the iteration that was in progress, and has ended
C10_Witness ==
  /\ main = "stopped"
  /\ h.blocks > 0
  /\ h.pubs_after_stop = 1
  /\ mon.pc = "done"

\* ------------------------------------------------------------------------
\* Properties of the lifecycle (specification SpecLifecycle)
\* ------------------------------------------------------------------------
Uninitialized == jack.client = "inactive" /\ mon.pc = "unstarted"
Active == jack.client = "active"
Stopped == jack.client = "closed"

\* C11: the engine goes Uninitialized -> Active -> Stopped.  Only a start()
\* in Uninitialized activates the client or launches the monitor thread,
\* so neither happens twice; a stop() in Active closes the client and
\* clears running; and once Stopped the client stays closed and a monitor
\* that is not running is never started.
C11_Lifecycle ==
  /\ [](h.activations <= 1 /\ h.launches <= 1)
  /\ [][~Uninitialized =>
          /\ (jack'.client = "active" => jack.client = "active")
          /\ (mon.pc \in {"unstarted", "done"} => mon'.pc = mon.pc)
          /\ h'.launches = h.launches]_vars
  /\ [][(Active /\ h'.stops = h.stops + 1) =>
          (jack'.client = "closed" /\ ~self'.running)]_vars
  /\ [][Stopped => jack'.client = "closed"]_vars

\* start() has been called again after a stop() that ended an Active
\* engine, and the monitor has ended
C11_Witness ==
  /\ Stopped
  /\ h.launches = 1
  /\ h.starts = 2
  /\ h.stops = 1
  /\ mon.pc = "done"

\* ------------------------------------------------------------------------
\* Properties of the settings (specification SpecSettings)
\* ------------------------------------------------------------------------
\* The step is a POST /api/settings with a JSON object as body
UpdateStep == h'.updates = h.updates + 1 /\ h'.op.name = "update"

\* C12: update_settings(partial) sets exactly the keys of partial to the
\* values given; every other key of the settings, default or not, keeps
\* its value, and no key is removed.
C12_UpdateFrame ==
  [][UpdateStep =>
       LET partial == h'.op.body
       IN  /\ DOMAIN self'.settings = DOMAIN self.settings \cup DOMAIN partial
           /\ \A k \in DOMAIN partial : self'.settings[k] = partial[k]
           /\ \A k \in DOMAIN self.settings \ DOMAIN partial :
                self'.settings[k] = self.settings[k]]_vars

\* An update that left alone a key no default names, stored by an earlier
\* request, and overrode a default
C12_Witness ==
  /\ h.op.name = "update"
  /\ h.op.body = ("attack_time_ms" :> Num(10))
  /\ "custom_key" \in DOMAIN self.settings
  /\ self.settings["custom_key"] = Str("kept")
  /\ self.settings["attack_time_ms"] = Num(10)

\* C13: as long as no save has failed, load_settings() on the persisted
\* file returns exactly the in-memory settings, after every sequence of
\* update_settings and reset_settings requests.
C13_FileMatchesMemory ==
  ~h.write_failed => load_settings(config_file) = self.settings

\* The same, as long as no settings.update(data) has raised either
FileMatchesMemoryUnlessRaised ==
  (~h.write_failed /\ ~h.update_raised) =>
     load_settings(config_file) = self.settings

\* C14: a save_settings() that fails leaves the persisted file as it was,
\* complete; the failure is not raised to the caller (the request is
\* answered as an update), and the in-memory settings are those the
\* update made, unmodified by the failed save.
C14_SaveAllOrNothing ==
  [][(UpdateStep /\ h'.op.io # "ok" /\ config_file.kind = "json") =>
       /\ config_file' = config_file
       /\ self'.settings = DictUpdate(self.settings, h'.op.body)]_vars

\* The file holds no document load_settings() can apply as a whole: text
\* that does not parse, or an array with an element that is not a pair
Unusable(file) ==
  \/ file.kind = "corrupt"
  \/ file.kind = "list" /\ \E i \in DOMAIN file.doc : ~file.doc[i].pair

\* C15: the settings a start loads are exactly the defaults when the file
\* is missing, exactly the defaults (no key overridden or added) when the
\* file cannot be parsed or applied, and the defaults overlaid key-wise by
\* the persisted values when the file holds a valid document.
C15_LoadFallsBack ==
  h.op.name = "load" =>
    /\ config_file.kind = "missing" => self.settings = defaults
    /\ Unusable(config_file) => self.settings = defaults
    /\ config_file.kind = "json" =>
         self.settings = DictUpdate(defaults, json_load(config_file.doc))

\* C16: after a reset_settings() that answered success, whatever requests
\* came before, the in-memory settings are exactly the defaults, the
\* persisted file loads as the defaults and, its write having succeeded,
\* holds them; and a block processed after the reset has used default
\* values only.
C16_ResetToDefaults ==
  h.op.name = "reset" =>
    /\ self.settings = defaults
    /\ load_settings(config_file) = defaults
    /\ h.op.io = "ok" => config_file = FileJson(defaults)
    /\ (BlockDone /\ h.blocks > h.op.blocks) =>
         \A k \in DOMAIN f.g_used : f.g_used[k] = defaults[k]

\* A reset that followed another request was saved, and a loud block has
\* been processed since
C16_Witness ==
  /\ h.op.name = "reset"
  /\ h.op.io = "ok"
  /\ h.updates >= 2
  /\ BlockDone
  /\ h.blocks > h.op.blocks
  /\ "duck_amount_db" \in DOMAIN f.g_used

\* ------------------------------------------------------------------------
\* Properties of the routing (specification SpecRouting)
\* ------------------------------------------------------------------------
Range(s) == { s[i] : i \in DOMAIN s }

AllPairs == Range(AUDIO_CONNECTIONS)

\* The attempt a `connected` record reports did not connect the pair, and
\* not because the pair was connected already
AttemptFailed(rec) ==
  rec.returncode # 0 /\ rec.stderr # "cannot connect client, already connected?"

\* C17: a call of run_autoconnect handles every pair of AUDIO_CONNECTIONS
\* exactly once; a pair whose attempt failed is a {from, to, error} record
\* of `failed` and is not in `connected`; and two calls one after the other
\* on a graph that was fully connected return the same `connected` list
\* and empty `failed` lists.
C17_AutoconnectReports ==
  /\ \A i \in DOMAIN graph.runs :
       LET res == graph.runs[i].result
           handled == [k \in 1..(Len(res.connected) + Len(res.failed)) |->
                         IF k <= Len(res.connected)
                           THEN << res.connected[k].from, res.connected[k].to >>
                           ELSE << res.failed[k - Len(res.connected)].from,
                                   res.failed[k - Len(res.connected)].to >>]
       IN  /\ Len(handled) = Len(AUDIO_CONNECTIONS)
           /\ Range(handled) = AllPairs
           /\ \A k \in DOMAIN res.connected : ~AttemptFailed(res.connected[k])
           /\ \A k \in DOMAIN res.failed :
                DOMAIN res.failed[k] = {"from", "to", "error"}
  /\ (Len(graph.runs) = 2 /\ graph.runs[1].found = AllPairs) =>
       /\ graph.runs[1].result.connected = graph.runs[2].result.connected
       /\ graph.runs[1].result.failed = << >>
       /\ graph.runs[2].result.failed = << >>

\* ------------------------------------------------------------------------
\* Properties of the envelope (specifications Spec and SpecScenario)
\* ------------------------------------------------------------------------
\* The latest callback got past the decision of its target
TargetDecided == BlockDone /\ f.fault \notin {267, 268, 290, 292}

\* C18: the target of a block depends on that block's primary level and
\* the settings only: 10^(duck_amount_db/20) when the level in dB is
\* strictly above primary_threshold_db, 1.0 otherwise, whatever earlier
\* blocks were, a level equal to the threshold and silence included.
C18_TargetFromThisBlock ==
  TargetDecided =>
    self.target_duck =
      IF linear_to_db(f.primary_rms) > f.g_used["primary_threshold_db"].val
        THEN db_to_linear(f.g_used["duck_amount_db"].val)
        ELSE ONE

\* A block whose primary level equals the threshold, right after a block
\* that ducked: its target is 1.0 while duck_amount is still below 1.0
C18_Witness ==
  /\ TargetDecided
  /\ linear_to_db(f.primary_rms) = f.g_used["primary_threshold_db"].val
  /\ linear_to_db(f.primary_rms) > FLOOR_DB
  /\ self.target_duck = ONE
  /\ self.duck_amount < ONE


\* the change the latest block made to duck_amount, the distance to the
\* target it started from, and the change a block makes from distance d:
\* d * frames / max(samples, 1), clamped to d
BlockChange == Abs(self.duck_amount - f.g_duck_before)
DistanceBefore == Abs(self.target_duck - f.g_duck_before)
SamplesInForce ==
  IF self.target_duck < f.g_duck_before
    THEN TimeToSamples(self.settings["attack_time_ms"].val, jack.samplerate)
    ELSE TimeToSamples(self.settings["release_time_ms"].val, jack.samplerate)
ChangeFrom(d) ==
  Min2(d, (d * BlockSize * 1000) \div Max2(SamplesInForce, 1000))

\* the change the first block of the present run made
FirstChange == ChangeFrom(Abs(self.target_duck - h.run_start))
RunLength == IF h.silent_run > 0 THEN h.silent_run ELSE h.loud_run

\* C19 as stated: over the blocks of a run (same target, same settings,
\* same block size) duck_amount changes by the same amount in every block,
\* the first block's, until the last step is clamped to the target (one
\* unit of rounding allowed per block).
C19_SameStepEveryBlock ==
  (AttackScenario \/ ReleaseScenario) =>
    Abs(BlockChange - Min2(DistanceBefore, FirstChange)) <= RunLength

\* C19 amended: over the blocks of a run each block changes duck_amount by
\* the distance to the target that block started from, times
\* N / max(samples, 1), clamped to that distance: the change is
\* proportional to the remaining distance, never larger than the first
\* block's, and it shrinks as duck_amount approaches the target.
C19_StepFromRemainingDistance ==
  (AttackScenario \/ ReleaseScenario) =>
    /\ BlockChange = ChangeFrom(DistanceBefore)
    /\ BlockChange <= FirstChange
    /\ (RunLength >= 2 /\ DistanceBefore < Abs(self.target_duck - h.run_start))
         => DistanceBefore - BlockChange
              <= Abs(self.target_duck - h.run_start) - FirstChange

\* a later block of a run changed duck_amount by less than the first block
\* did, beyond rounding, and left it short of the target
C19_Witness ==
  /\ AttackScenario \/ ReleaseScenario
  /\ RunLength >= 2
  /\ BlockChange + RunLength < FirstChange
  /\ self.duck_amount # self.target_duck

\* ------------------------------------------------------------------------
\* Properties of the level histories (specification SpecHistory)
\* ------------------------------------------------------------------------
\* the three histories of an engine, each with the local the monitor
\* appends to it and the two fields of a snapshot that report on it
Histories(obj, m, metrics) ==
  { [history |-> obj.primary_vu_history, reading |-> m.primary_db,
     level |-> metrics.primary_level_db, peak |-> metrics.primary_peak_db],
    [history |-> obj.secondary_vu_history, reading |-> m.secondary_db,
     level |-> metrics.secondary_level_db, peak |-> metrics.secondary_peak_db],
    [history |-> obj.output_vu_history, reading |-> m.output_db,
     level |-> metrics.output_level_db, peak |-> metrics.output_peak_db] }

\* after is before with one reading appended, the oldest reading gone if
\* before was full
AppendedFifo(before, after, reading) ==
  LET n == Min2(Len(before) + 1, HistCap)
      gone == Len(before) + 1 - n
  IN  /\ Len(after) = n
      /\ after[n] = reading
      /\ \A i \in 1..(n - 1) : after[i] = before[i + gone]

\* the monitor has published the snapshot of its present iteration
JustPublished == mon.pc = "L389"

PeakIsMaxOfHistory ==
  JustPublished =>
    \A x \in Histories(self, mon, self.last_metrics) :
      /\ Len(x.history) >= 1
      /\ x.history[Len(x.history)] = x.level
      /\ \E i \in 1..Len(x.history) : x.history[i] = x.peak
      /\ \A i \in 1..Len(x.history) : x.history[i] <= x.peak
      /\ x.peak >= x.level

HistoryStep ==
  /\ \A x \in Histories(self, mon, self.last_metrics) : Len(x.history) <= HistCap
  /\ IF mon.pc = "L365" /\ mon'.pc = "L380"
       THEN /\ AppendedFifo(self.primary_vu_history,
                            self'.primary_vu_history, mon.primary_db)
            /\ AppendedFifo(self.secondary_vu_history,
                            self'.secondary_vu_history, mon.secondary_db)
            /\ AppendedFifo(self.output_vu_history,
                            self'.output_vu_history, mon.output_db)
       ELSE /\ self'.primary_vu_history = self.primary_vu_history
            /\ self'.secondary_vu_history = self.secondary_vu_history
            /\ self'.output_vu_history = self.output_vu_history

\* C20: none of the three histories ever holds more than 20 readings; the
\* monitor's append adds the new reading at the end and, on a full history,
\* removes the oldest reading and no other; and the peak a snapshot carries
\* is the maximum of the readings in the history when it is published, the
\* iteration's own reading among them, so it is never below the level in
\* the same snapshot.
C20_HistoriesAndPeaks == [][HistoryStep]_vars /\ []PeakIsMaxOfHistory

\* a snapshot published after readings were evicted, its primary peak held
\* by an older reading above the present level
C20_Witness ==
  /\ JustPublished
  /\ mon.iter > HistCap
  /\ Len(self.primary_vu_history) = HistCap
  /\ self.last_metrics.primary_peak_db > self.last_metrics.primary_level_db

\* ------------------------------------------------------------------------
\* Properties of a faulted block and of the settings the blocks read
\* (specifications Spec and SpecSettings)
\* ------------------------------------------------------------------------
\* this step is one whole callback, and it faulted
FaultedBlock == h'.blocks = h.blocks + 1 /\ f'.fault # 0

\* C21: a block on which process faults leaves duck_amount, target_duck,
\* primary_level, secondary_level, output_level and clipping as they were
\* before the block, whichever statement faults.
C21_FaultLeavesEnvelope ==
  [][FaultedBlock =>
       /\ self'.duck_amount = self.duck_amount
       /\ self'.target_duck = self.target_duck
       /\ self'.primary_level = self.primary_level
       /\ self'.secondary_level = self.secondary_level
       /\ self'.output_level = self.output_level
       /\ self'.clipping = self.clipping]_vars

\* What a faulted block does leave alone: output_level and clipping, which
\* are assigned after the last statement that reads a setting, and every
\* field when the fault is at the first settings read.
FaultLeavesWhatFollows ==
  [][FaultedBlock =>
       /\ self'.output_level = self.output_level
       /\ self'.clipping = self.clipping
       /\ f'.fault = 267 => self' = self]_vars

\* the keys process and monitor_loop look up with self.settings[...]
LookedUp ==
  { "primary_gain_db", "secondary_gain_db", "primary_threshold_db",
    "duck_amount_db", "attack_time_ms", "release_time_ms" }

DefaultKeysPresent == DOMAIN defaults \subseteq DOMAIN self.settings

\* C22: after any sequence of load_settings, update_settings and
\* reset_settings every key of the default set is present in the in-memory
\* settings and every key process and monitor_loop look up maps to a
\* number, so that no block faults on a settings lookup or on arithmetic
\* with a settings value.
C22_SettingsUsable ==
  /\ DefaultKeysPresent
  /\ \A k \in LookedUp : IsNum(self.settings[k])
  /\ BlockDone => f.fault = 0
=============================================================================
